---- MODULE Spec2Model ----
(***************************************************************************)
(* Model of nbsphinx_link/__init__.py: LinkedNotebookParser.parse and the  *)
(* helpers it calls (collect_extra_media, copy_and_register_files,         *)
(* copy_file, register_dependency).                                        *)
(*                                                                         *)
(* A path is a sequence of components.  An absolute path starts with the   *)
(* component "/"; ".." is an ordinary component until a normalisation      *)
(* removes it; the empty sequence is the empty string (the directory ".").*)
(* The file system holds no symbolic links, so Path.resolve() is           *)
(* normpath(cwd / p).                                                      *)
(***************************************************************************)
EXTENDS Naturals, Sequences, FiniteSets

\* Longest "extra-media" list the descriptors of SpecSeq carry.
MaxMedia == 2

----------------------------------------------------------------------------
(* Path arithmetic                                                          *)

IsAbs(p) == Len(p) > 0 /\ p[1] = "/"

\* os.path.join(a, b) and pathlib's a / b: an absolute b replaces a.
Join(a, b) == IF IsAbs(b) THEN b ELSE a \o b

RECURSIVE NormStep(_, _)
NormStep(acc, rest) ==
    IF rest = <<>> THEN acc
    ELSE LET c == Head(rest)
             nxt == IF c # ".." THEN Append(acc, c)
                    ELSE IF acc = <<>> THEN <<"..">>
                    ELSE IF acc[Len(acc)] = ".." THEN Append(acc, "..")
                    ELSE IF acc = <<"/">> THEN acc
                    ELSE SubSeq(acc, 1, Len(acc) - 1)
         IN  NormStep(nxt, Tail(rest))

\* os.path.normpath: ".." collapsed textually; "/.." is "/".
NormPath(p) == NormStep(<<>>, p)

\* os.path.abspath(p) under working directory cwd.
AbsPath(cwd, p) == NormPath(Join(cwd, p))

\* Path.resolve() (strict=False) under cwd, without symbolic links.
Resolve(cwd, p) == NormPath(Join(cwd, p))

\* Path.parent and os.path.dirname: the path without its last component.
Parent(p) ==
    IF Len(p) = 0 THEN <<>>
    ELSE IF Len(p) = 1 THEN (IF IsAbs(p) THEN p ELSE <<>>)
    ELSE SubSeq(p, 1, Len(p) - 1)

\* os.path.basename
Basename(p) == IF Len(p) = 0 \/ p = <<"/">> THEN <<>> ELSE <<p[Len(p)]>>

IsPrefix(a, b) == Len(a) <= Len(b) /\ SubSeq(b, 1, Len(a)) = a

RECURSIVE CommonLen(_, _)
CommonLen(a, b) ==
    IF a = <<>> \/ b = <<>> \/ Head(a) # Head(b) THEN 0
    ELSE 1 + CommonLen(Tail(a), Tail(b))

RECURSIVE Ups(_)
Ups(n) == IF n = 0 THEN <<>> ELSE <<"..">> \o Ups(n - 1)

FirstTwo(q) == SubSeq(q, 1, IF Len(q) < 2 THEN Len(q) ELSE 2)

\* The stand-in docutils uses for a missing source: <cwd>/dummy_file.
DummyFile == <<"dummy_file">>

\* docutils.utils.relative_path(source, target): the path to `target` relative
\* to the directory of the file `source`, both made absolute under cwd; the
\* absolute target when the two share no first directory.
RelativePath(cwd, source, target) ==
    LET sp == AbsPath(cwd, source)
        tp == AbsPath(cwd, target)
        n  == CommonLen(sp, tp)
    IN  IF FirstTwo(sp) # FirstTwo(tp) THEN tp
        ELSE Ups(IF Len(sp) > n THEN Len(sp) - n - 1 ELSE 0)
                 \o SubSeq(tp, n + 1, Len(tp))

\* PurePath.relative_to(other, walk_up=True) for an absolute, normalised self.
\* ok is FALSE (Python raises ValueError) when no ancestor of `other` is a
\* prefix of self before a ".." segment of `other` is met, or the anchors differ.
RECURSIVE WalkUp(_, _, _)
WalkUp(self, other, step) ==
    IF IsPrefix(other, self) /\ (IsAbs(other) \/ ~IsAbs(self))
        THEN [ok |-> TRUE,
              path |-> Ups(step) \o SubSeq(self, Len(other) + 1, Len(self))]
    ELSE IF Len(other) = 0 \/ other = <<"/">> THEN [ok |-> FALSE, path |-> <<>>]
    ELSE IF other[Len(other)] = ".." THEN [ok |-> FALSE, path |-> <<>>]
    ELSE WalkUp(self, Parent(other), step + 1)

RelativeTo(self, other) == WalkUp(self, other, 0)

----------------------------------------------------------------------------
(* The world: working directories, file system, descriptors                 *)

Root   == <<"/">>
DocDir == <<"/", "r", "d">>
NbDir  == <<"/", "r", "n">>

\* The source directory of the build: a relative env.docname names a document
\* under it.
SrcDir == DocDir

\* Directories and regular files present before the build.
Dirs0  == {Root, <<"/", "r">>, DocDir, DocDir \o <<"s">>, NbDir,
           NbDir \o <<"i">>, NbDir \o <<"i", "t">>}
Files0 == {NbDir \o <<"nb">>, NbDir \o <<"bin">>, NbDir \o <<"m">>,
           NbDir \o <<"k">>, NbDir \o <<"i", "f">>, NbDir \o <<"i", "t", "g">>}

\* Files whose text is not UTF-8.
Undecodable == {NbDir \o <<"bin">>}

\* Permissions of the file system: "normal", the documentation directory
\* read-only, or two media files unreadable.
Modes == {"normal", "readonly", "unreadable"}
ReadOnlyDirs(m) == IF m = "readonly" THEN {DocDir} ELSE {}
Unreadable(m)   == IF m = "unreadable"
                   THEN {NbDir \o <<"m">>, NbDir \o <<"i", "f">>} ELSE {}

Cwds        == {DocDir, <<"/", "r">>}
Docnames    == {<<"x">>, <<"s", "x">>, DocDir \o <<"x">>}
NbPaths     == {<<"..", "n", "nb">>, NbDir \o <<"nb">>, <<"..", "n", "zz">>,
                <<"..", "n", "bin">>}
\* nbsphinx_link_target_root: <<>> is the unset (None) value.
TargetRoots == {<<>>, <<"/", "q">>, <<"r">>}
MediaEntries == {<<"..", "n", "m">>, <<"..", "n", "i">>, <<"..", "n", "zz">>,
                 NbDir \o <<"k">>, <<"..", "n", "i", "f">>,
                 <<"..", "..", "..", "n", "m">>}

RECURSIVE SeqsUpTo(_, _)
SeqsUpTo(S, n) ==
    IF n = 0 THEN {<<>>}
    ELSE LET shorter == SeqsUpTo(S, n - 1)
         IN  shorter \cup {Append(q, e) : q \in shorter, e \in S}

\* The value of the "extra-media" key.  kind "absent": the key is missing;
\* "list": a JSON array of strings; "str": a JSON string, whose iteration
\* yields its characters; "dict": a JSON object, whose iteration yields its
\* keys; "num": a JSON number, which cannot be iterated.  truthy is Python's
\* truth value of the value.
Media(kind, items, truthy) == [kind |-> kind, items |-> items, truthy |-> truthy]
NoMedia == Media("absent", <<>>, FALSE)
ListMedia(items) == Media("list", items, items # <<>>)
NonListMedia ==
    { Media("str", <<>>, FALSE), Media("str", <<<<"m">>>>, TRUE),
      Media("dict", <<<<"m">>, <<"i">>>>, TRUE),
      Media("num", <<>>, FALSE), Media("num", <<>>, TRUE) }
MediaValues(n) == {NoMedia} \cup {ListMedia(q) : q \in SeqsUpTo(MediaEntries, n)}
                    \cup NonListMedia

\* The link file's text, by what json.loads makes of it: "invalid" is not
\* JSON, "nonobject" is JSON but no object, "object" is a JSON object.
Json(kind, haspath, path, media) ==
    [kind |-> kind, haspath |-> haspath, path |-> path, media |-> media]
BadJsons == { Json("invalid", FALSE, <<>>, NoMedia),
              Json("nonobject", FALSE, <<>>, NoMedia),
              Json("object", FALSE, <<>>, NoMedia),
              Json("object", FALSE, <<>>, ListMedia(<<<<"..", "n", "m">>>>)) }
Jsons(n) == BadJsons \cup
            {Json("object", TRUE, P, m) : P \in NbPaths, m \in MediaValues(n)}

\* env.config.nbsphinx_custom_formats before the parse: the attribute is
\* missing, the mapping has no ".nblink" key, or the user has set one.
Formats0 == {"absent", "empty", "user"}

Input(docname, json, troot, fmt) ==
    [docname |-> docname, json |-> json, target_root |-> troot, formats |-> fmt]

\* The documents of the sequential specification.  The format table is
\* varied on the descriptors without media only.
SeqInputs ==
    {Input(d, j, t, "empty") : d \in Docnames, j \in Jsons(MaxMedia), t \in TargetRoots}
    \cup {Input(d, j, <<>>, f) : d \in Docnames, j \in Jsons(0), f \in Formats0}

\* Processes.  "A" and "B" share one file system ("W"); "SA" and "SB" are the
\* same two documents, each processed alone on a file system of its own.
Conc   == {"A", "B"}
Solo   == {"SA", "SB"}
World(p) == IF p \in Solo THEN p ELSE "W"
Worlds == {"W"} \cup Solo
SoloOf(p) == IF p = "A" THEN "SA" ELSE "SB"

VARIABLES
    procs, input, cwd, mode,        \* fixed by Init
    files, dirs,                    \* per world: regular files, directories
    pc, err, trace,                 \* per process: position, error kind, steps
    link, abs_path, path,           \* parse's locals
    idx, any_dirs, src, dest,       \* collect_extra_media's locals
    seen,                           \* what each entry met so far was: missing, file, dir
    walk, todo,                     \* os.walk's pending directories, pending copies
    deps, envdeps, reread,          \* record_dependencies, env.note_dependency, note_reread calls
    warnings, copied,               \* logger.warning calls, (src, dst) copies made
    target, metadata, formats       \* parse's target, env.metadata[docname], formats[".nblink"]

fixed  == <<procs, input, cwd, mode>>
fs     == <<files, dirs>>
ctl    == <<pc, err, trace>>
plocal == <<link, abs_path, path>>
mlocal == <<idx, any_dirs, src, dest, seen, walk, todo>>
out    == <<deps, envdeps, reread, warnings, copied, target, metadata, formats>>
vars   == <<fixed, fs, ctl, plocal, mlocal, out>>

NoPath == <<"?">>

InitLocals ==
    /\ files = [w \in {World(p) : p \in procs} |-> Files0]
    /\ dirs  = [w \in {World(p) : p \in procs} |-> Dirs0]
    /\ pc = [p \in procs |-> "Start"]
    /\ err = [p \in procs |-> "none"]
    /\ trace = [p \in procs |-> <<>>]
    /\ link = [p \in procs |-> Json("invalid", FALSE, <<>>, NoMedia)]
    /\ abs_path = [p \in procs |-> NoPath]
    /\ path = [p \in procs |-> NoPath]
    /\ idx = [p \in procs |-> 0]
    /\ any_dirs = [p \in procs |-> FALSE]
    /\ src = [p \in procs |-> NoPath]
    /\ dest = [p \in procs |-> NoPath]
    /\ seen = [p \in procs |-> <<>>]
    /\ walk = [p \in procs |-> <<>>]
    /\ todo = [p \in procs |-> {}]
    /\ deps = [p \in procs |-> {}]
    /\ envdeps = [p \in procs |-> {}]
    /\ reread = [p \in procs |-> 0]
    /\ warnings = [p \in procs |-> <<>>]
    /\ copied = [p \in procs |-> {}]
    /\ target = [p \in procs |-> NoPath]
    /\ metadata = [p \in procs |-> NoPath]
    /\ formats = [p \in procs |-> input[p].formats]

\* One document, processed alone.
Init ==
    /\ procs = {"A"}
    /\ cwd \in Cwds
    /\ mode \in Modes
    /\ input \in [{"A"} -> SeqInputs]
    /\ InitLocals

----------------------------------------------------------------------------
(* Helpers of the operations                                                *)

Terminal == {"Delegated", "Failed"}

\* The reference runs come first, one after the other; then "A" and "B"
\* interleave freely.
Runnable(p) ==
    /\ p \in procs
    /\ p \in Conc => \A s \in Solo \cap procs : pc[s] \in Terminal
    /\ p = "SB" => ("SA" \notin procs \/ pc["SA"] \in Terminal)

IsFile(w, a) == a \in files[w]
IsDir(w, a)  == a \in dirs[w]
Exists(w, a) == IsFile(w, a) \/ IsDir(w, a)

\* The order in which os.walk lists the subdirectories of one directory.
RECURSIVE SetToSeq(_)
SetToSeq(S) == IF S = {} THEN <<>>
               ELSE LET x == CHOOSE y \in S : TRUE IN <<x>> \o SetToSeq(S \ {x})

source_file(p) == input[p].docname
source_dir(p)  == Parent(source_file(p))

\* An uncaught exception of kind k leaves parse.
Raise(p, k) ==
    /\ pc' = [pc EXCEPT ![p] = "Failed"]
    /\ err' = [err EXCEPT ![p] = k]
    /\ trace' = [trace EXCEPT ![p] = Append(@, "Failed")]

\* Control moves on; `steps` are the steps of the document's life completed.
Advance(p, to, steps) ==
    /\ pc' = [pc EXCEPT ![p] = to]
    /\ trace' = [trace EXCEPT ![p] = @ \o steps]
    /\ UNCHANGED err

Warning(kind, file, entry) == [kind |-> kind, file |-> file, entry |-> entry]

\* register_dependency adds file_path to a dependency set.
RegisterDependency(set, file_path) == set \cup {file_path}

\* abs_path = (source_dir / link["path"]).resolve()
NotebookAbsPath(c, D, P) == Resolve(c, Join(D, P))

\* path = Path(utils.relative_path(None, abs_path))
NotebookPath(c, a) == RelativePath(c, DummyFile, a)

\* src_path of one extra-media entry.
SrcPath(D, e) == IF IsAbs(e) THEN e ELSE NormPath(Join(D, Join(D, e)))

\* The two frames swapped: the offset from the descriptor's directory
\* re-applied from the notebook's directory.
DestPathFromNotebook(c, D, nb, s) ==
    NormPath(Join(Parent(nb), RelativePath(c, Join(D, DummyFile), s)))

\* dest_path of one extra-media entry whose source is s.
DestPath(c, D, nb, s) == NormPath(Join(D, RelativePath(c, nb, s)))

\* A lookup with a default, link.get("path", ""), in place of link["path"].
LookupPathLenient(l) == "ok"

\* link["path"]: the outcome of the lookup on what json.loads returned.
LookupPath(l) == IF l.kind = "nonobject" THEN "TypeError"
                 ELSE IF ~l.haspath THEN "KeyError" ELSE "ok"

\* The media step bypassed: the notebook registered straight after resolution.
MediaDoneEager(p) == pc[p] \in {"Resolved", "MediaCollected"}

\* Where register_dependency(path, document) is reached: after
\* collect_extra_media has returned, or at once when extra_media is falsy.
MediaDone(p) == \/ pc[p] = "MediaCollected"
                \/ pc[p] = "Resolved" /\ ~link[p].media.truthy

\* "and" in place of "or".
AnyDirsAnd(old, isdir) == old /\ isdir

\* any_dirs = any_dirs or os.path.isdir(src_path)
AnyDirs(old, isdir) == old \/ isdir

----------------------------------------------------------------------------
(* LinkedNotebookParser.parse                                               *)

\* link = json.loads(inputstring)
ParseJson(p) ==
    /\ Runnable(p) /\ pc[p] = "Start"
    /\ IF input[p].json.kind = "invalid"
       THEN Raise(p, "JSONDecodeError") /\ UNCHANGED link
       ELSE /\ link' = [link EXCEPT ![p] = input[p].json]
            /\ Advance(p, "Loaded", <<"Loaded">>)
    /\ UNCHANGED <<fixed, fs, abs_path, path, mlocal, out>>

\* source_dir, abs_path and path
ResolvePath(p) ==
    /\ Runnable(p) /\ pc[p] = "Loaded"
    /\ IF LookupPath(link[p]) # "ok"
       THEN Raise(p, LookupPath(link[p])) /\ UNCHANGED <<abs_path, path>>
       ELSE LET a == NotebookAbsPath(cwd, source_dir(p), link[p].path)
            IN  /\ abs_path' = [abs_path EXCEPT ![p] = a]
                /\ path' = [path EXCEPT ![p] = NotebookPath(cwd, a)]
                /\ Advance(p, "Resolved", <<"Resolved">>)
    /\ UNCHANGED <<fixed, fs, link, mlocal, out>>

\* if extra_media: collect_extra_media(...) up to the head of its loop
EnterMedia(p) ==
    /\ Runnable(p) /\ pc[p] = "Resolved"
    /\ link[p].media.truthy
    /\ any_dirs' = [any_dirs EXCEPT ![p] = FALSE]
    /\ warnings' = [warnings EXCEPT ![p] =
          IF link[p].media.kind # "list"
          THEN Append(@, Warning("notlist", source_file(p), <<>>)) ELSE @]
    /\ IF link[p].media.kind = "num"
       THEN Raise(p, "TypeError") /\ UNCHANGED idx
       ELSE idx' = [idx EXCEPT ![p] = 1] /\ Advance(p, "MediaLoop", <<>>)
    /\ UNCHANGED <<fixed, fs, plocal, src, dest, seen, walk, todo,
                   deps, envdeps, reread, copied, target, metadata, formats>>

\* One iteration of collect_extra_media's loop, up to the first copy.
MediaEntry(p) ==
    /\ Runnable(p) /\ pc[p] = "MediaLoop"
    /\ LET e == link[p].media.items[idx[p]]
           s == SrcPath(source_dir(p), e)
           d == DestPath(cwd, source_dir(p), path[p], s)
           a == AbsPath(cwd, s)
           w == World(p)
       IN  /\ src' = [src EXCEPT ![p] = s]
           /\ dest' = [dest EXCEPT ![p] = d]
           /\ seen' = [seen EXCEPT ![p] =
                  Append(@, IF ~Exists(w, a) THEN "missing"
                            ELSE IF IsDir(w, a) THEN "dir" ELSE "file")]
           /\ IF ~Exists(w, a)
              THEN /\ warnings' = [warnings EXCEPT ![p] =
                          Append(@, Warning("missing", source_file(p), e))]
                   /\ Advance(p, "EntryEnd", <<>>)
                   /\ UNCHANGED <<any_dirs, walk, todo>>
              ELSE /\ any_dirs' = [any_dirs EXCEPT ![p] = AnyDirs(@, IsDir(w, a))]
                   /\ UNCHANGED warnings
                   /\ IF IsDir(w, a)
                      THEN /\ walk' = [walk EXCEPT ![p] = <<a>>]
                           /\ todo' = [todo EXCEPT ![p] = {}]
                           /\ Advance(p, "Walk", <<>>)
                      ELSE /\ walk' = [walk EXCEPT ![p] = <<>>]
                           /\ todo' = [todo EXCEPT ![p] = {[src |-> s, dst |-> d]}]
                           /\ Advance(p, "CopyFiles", <<>>)
    /\ UNCHANGED <<fixed, fs, plocal, idx,
                   deps, envdeps, reread, copied, target, metadata, formats>>

\* copy_and_register_files: os.walk yields one directory; its files are to
\* be copied to dst_root, which is created first when it does not exist.
WalkDir(p) ==
    /\ Runnable(p) /\ pc[p] = "Walk"
    /\ LET w == World(p)
           top == AbsPath(cwd, src[p])
           root == Head(walk[p])
           filenames == {f \in files[w] : Parent(f) = root}
           subdirs == {x \in dirs[w] : Parent(x) = root /\ x # root}
           dst_root == Join(dest[p], SubSeq(root, Len(top) + 1, Len(root)))
           rest == SetToSeq(subdirs) \o Tail(walk[p])
       IN  /\ walk' = [walk EXCEPT ![p] = rest]
           /\ todo' = [todo EXCEPT ![p] =
                         {[src |-> f, dst |-> dst_root] : f \in filenames}]
           /\ Advance(p, IF filenames # {} /\ ~Exists(w, AbsPath(cwd, dst_root))
                             THEN "Makedirs"
                         ELSE IF filenames # {} THEN "CopyFiles"
                         ELSE IF rest # <<>> THEN "Walk"
                         ELSE "EntryEnd", <<>>)
    /\ UNCHANGED <<fixed, fs, plocal, idx, any_dirs, src, dest, seen, out>>

\* os.makedirs(dst_root), outside every try block
Makedirs(p) ==
    /\ Runnable(p) /\ pc[p] = "Makedirs"
    /\ LET w == World(p)
           t == AbsPath(cwd, (CHOOSE c \in todo[p] : TRUE).dst)
           chain == {SubSeq(t, 1, n) : n \in 1..Len(t)}
           new == {x \in chain : ~IsDir(w, x)}
           refused == \/ Exists(w, t)
                      \/ \E x \in chain : IsFile(w, x)
                      \/ \E x \in new : Parent(x) \in ReadOnlyDirs(mode)
       IN  IF refused
           THEN Raise(p, "OSError") /\ UNCHANGED dirs
           ELSE /\ dirs' = [dirs EXCEPT ![w] = @ \cup new]
                /\ Advance(p, "CopyFiles", <<>>)
    /\ UNCHANGED <<fixed, files, plocal, mlocal, out>>

\* copy_file(src, dest, document): shutil.copy and register_dependency in a
\* try block whose OSError becomes a warning.
CopyFile(p) ==
    /\ Runnable(p) /\ pc[p] = "CopyFiles"
    /\ \E c \in todo[p] :
         LET w == World(p)
             s == AbsPath(cwd, c.src)
             d == AbsPath(cwd, c.dst)
             t == IF IsDir(w, d) THEN d \o Basename(s) ELSE d
             ok == /\ IsFile(w, s) /\ s \notin Unreadable(mode)
                   /\ t # s
                   /\ ~IsDir(w, t)
                   /\ IsDir(w, Parent(t))
                   /\ IsFile(w, t) \/ Parent(t) \notin ReadOnlyDirs(mode)
             left == todo[p] \ {c}
         IN  /\ todo' = [todo EXCEPT ![p] = left]
             /\ IF ok
                THEN /\ files' = [files EXCEPT ![w] = @ \cup {t}]
                     /\ copied' = [copied EXCEPT ![p] = @ \cup {[src |-> s, dst |-> t]}]
                     /\ deps' = [deps EXCEPT ![p] = RegisterDependency(@, c.src)]
                     /\ envdeps' = [envdeps EXCEPT ![p] = RegisterDependency(@, c.src)]
                     /\ UNCHANGED warnings
                ELSE /\ warnings' = [warnings EXCEPT ![p] =
                            Append(@, Warning("copyfail", c.src, <<>>))]
                     /\ UNCHANGED <<files, copied, deps, envdeps>>
             /\ Advance(p, IF left # {} THEN "CopyFiles"
                           ELSE IF walk[p] # <<>> THEN "Walk"
                           ELSE "EntryEnd", <<>>)
    /\ UNCHANGED <<fixed, dirs, plocal, idx, any_dirs, src, dest, seen, walk,
                   reread, target, metadata, formats>>

\* The end of one iteration: note_reread when a directory was met so far;
\* after the last entry collect_extra_media returns.
EntryEnd(p) ==
    /\ Runnable(p) /\ pc[p] = "EntryEnd"
    /\ reread' = [reread EXCEPT ![p] = IF any_dirs[p] THEN @ + 1 ELSE @]
    /\ idx' = [idx EXCEPT ![p] = @ + 1]
    /\ IF idx[p] = Len(link[p].media.items)
       THEN Advance(p, "MediaCollected", <<"MediaCollected">>)
       ELSE Advance(p, "MediaLoop", <<>>)
    /\ UNCHANGED <<fixed, fs, plocal, any_dirs, src, dest, seen, walk, todo,
                   deps, envdeps, warnings, copied, target, metadata, formats>>

\* register_dependency(path, document)
RegisterNotebook(p) ==
    /\ Runnable(p)
    /\ MediaDone(p)
    /\ deps' = [deps EXCEPT ![p] = RegisterDependency(@, path[p])]
    /\ envdeps' = [envdeps EXCEPT ![p] = RegisterDependency(@, path[p])]
    /\ Advance(p, "DependencyRegistered", <<"DependencyRegistered">>)
    /\ UNCHANGED <<fixed, fs, plocal, mlocal, reread, warnings, copied,
                   target, metadata, formats>>

\* target_root, target, env.metadata and the custom format
WriteMetadata(p) ==
    /\ Runnable(p) /\ pc[p] = "DependencyRegistered"
    /\ LET target_root == IF input[p].target_root = <<>> THEN cwd
                          ELSE input[p].target_root
           rel == RelativeTo(abs_path[p], target_root)
       IN  IF ~rel.ok
           THEN Raise(p, "ValueError") /\ UNCHANGED <<target, metadata, formats>>
           ELSE /\ target' = [target EXCEPT ![p] = rel.path]
                /\ metadata' = [metadata EXCEPT ![p] = rel.path]
                /\ formats' = [formats EXCEPT ![p] =
                                 IF @ = "empty" THEN "nbformat" ELSE @]
                /\ Advance(p, "MetadataWritten",
                           <<"TargetComputed", "MetadataWritten">>)
    /\ UNCHANGED <<fixed, fs, plocal, mlocal, deps, envdeps, reread,
                   warnings, copied>>

\* include_file = io.FileInput(source_path=path, encoding="utf8"): both
\* except clauses raise NotebookError.
OpenNotebook(p) ==
    /\ Runnable(p) /\ pc[p] = "MetadataWritten"
    /\ IF IsFile(World(p), AbsPath(cwd, path[p]))
       THEN Advance(p, "Opened", <<>>)
       ELSE Raise(p, "NotebookError")
    /\ UNCHANGED <<fixed, fs, plocal, mlocal, out>>

\* rawtext = include_file.read()
ReadNotebook(p) ==
    /\ Runnable(p) /\ pc[p] = "Opened"
    /\ IF AbsPath(cwd, path[p]) \in Undecodable
       THEN Raise(p, "NotebookError")
       ELSE Advance(p, "Read", <<"Read">>)
    /\ UNCHANGED <<fixed, fs, plocal, mlocal, out>>

\* return super().parse(rawtext, document)
Delegate(p) ==
    /\ Runnable(p) /\ pc[p] = "Read"
    /\ Advance(p, "Delegated", <<"Delegated">>)
    /\ UNCHANGED <<fixed, fs, plocal, mlocal, out>>

Next ==
    \E p \in {"A", "B", "SA", "SB"} :
        \/ ParseJson(p)
        \/ ResolvePath(p)
        \/ EnterMedia(p)
        \/ MediaEntry(p)
        \/ WalkDir(p)
        \/ Makedirs(p)
        \/ CopyFile(p)
        \/ EntryEnd(p)
        \/ RegisterNotebook(p)
        \/ WriteMetadata(p)
        \/ OpenNotebook(p)
        \/ ReadNotebook(p)
        \/ Delegate(p)

Spec == Init /\ [][Next]_vars

----------------------------------------------------------------------------
(* Two documents read in parallel                                           *)

NbRel == <<"..", "n", "nb">>
ParJsons ==
    { Json("object", TRUE, NbRel, NoMedia),
      Json("object", TRUE, NbRel, ListMedia(<<<<"..", "n", "i">>>>)),
      Json("object", TRUE, NbRel, ListMedia(<<<<"..", "n", "zz">>, <<"..", "n", "m">>>>)),
      Json("object", TRUE, NbRel, Media("num", <<>>, TRUE)),
      Json("invalid", FALSE, <<>>, NoMedia),
      Json("object", FALSE, <<>>, ListMedia(<<<<"..", "n", "m">>>>)),
      Json("object", TRUE, <<"..", "n", "zz">>, NoMedia),
      Json("object", TRUE, <<"..", "n", "bin">>, NoMedia) }

ParInputs(docname) ==
    {Input(docname, j, <<>>, "empty") : j \in ParJsons}
    \cup {Input(docname, Json("object", TRUE, NbRel,
                              ListMedia(<<<<"..", "n", "m">>>>)), <<"r">>, "empty")}

\* Documents x and y of one source directory, read by two processes that
\* share the file system; each is also read alone, for reference.
InitPar ==
    /\ procs = Conc \cup Solo
    /\ cwd = DocDir
    /\ mode \in {"normal", "readonly"}
    /\ \E a \in ParInputs(<<"x">>), b \in ParInputs(<<"y">>) :
          input = [p \in Conc \cup Solo |-> IF p \in {"A", "SA"} THEN a ELSE b]
    /\ InitLocals

SpecPar == InitPar /\ [][Next]_vars

----------------------------------------------------------------------------
(* Properties                                                               *)

Range(q) == {q[i] : i \in DOMAIN q}
Did(p, step) == step \in Range(trace[p])
Items(p) == input[p].json.media.items
Proc(p) == <<pc[p], err[p], trace[p], link[p], abs_path[p], path[p], seen[p],
             deps[p], envdeps[p], reread[p], warnings[p], copied[p],
             target[p], metadata[p], formats[p]>>

\* The steps a document goes through when nothing fails.
ExpectedSteps(p) ==
    <<"Loaded", "Resolved">>
    \o (IF input[p].json.media.truthy THEN <<"MediaCollected">> ELSE <<>>)
    \o <<"DependencyRegistered", "TargetComputed", "MetadataWritten",
         "Read", "Delegated">>

TraceOK(p) ==
    LET tr == trace[p]
        failed == tr # <<>> /\ tr[Len(tr)] = "Failed"
        body == IF failed THEN SubSeq(tr, 1, Len(tr) - 1) ELSE tr
    IN  /\ IsPrefix(body, ExpectedSteps(p))
        /\ failed <=> pc[p] = "Failed"

\* C1 as the specification states it: the notebook's target_root-relative
\* path is computed in the Resolved step, so before the media are collected
\* and before the notebook is registered as a dependency.
C1_Claim ==
    \A p \in procs : \A i \in DOMAIN trace[p] :
        trace[p][i] \in {"MediaCollected", "DependencyRegistered"}
            => \E j \in 1..(i - 1) : trace[p][j] = "TargetComputed"

\* C1, amended: every document goes Start -> Loaded -> Resolved (absolute and
\* cwd-relative notebook path) -> MediaCollected (only when extra-media is
\* truthy) -> DependencyRegistered -> TargetComputed (the target_root-relative
\* path) -> MetadataWritten -> Read -> Delegated, each step at most once; a
\* failure makes the document Failed for good; media are copied and warned
\* about only between Resolved and MediaCollected; the notebook is a
\* dependency exactly from DependencyRegistered on, the metadata field is set
\* exactly from MetadataWritten on; and the step in which one document fails
\* changes nothing of any other document.
C1_Steps ==
    [][\A p \in procs :
          /\ TraceOK(p)'
          /\ pc[p] \in Terminal => Proc(p)' = Proc(p)
          /\ (copied[p]' # copied[p] \/ warnings[p]' # warnings[p])
                => /\ Did(p, "Resolved")
                   /\ ~Did(p, "MediaCollected")'
                   /\ ~Did(p, "DependencyRegistered")'
          /\ (path[p]' \in deps[p]') <=> Did(p, "DependencyRegistered")'
          /\ (metadata[p]' # NoPath) <=> Did(p, "MetadataWritten")'
          /\ (pc[p]' = "Failed" /\ pc[p] # "Failed")
                => \A q \in procs \ {p} : Proc(q)' = Proc(q)
      ]_vars

\* A document fails on its target root after its media were copied, while the
\* other document, with media of its own, is delegated.
C1_Witness ==
    /\ procs = Conc \cup Solo
    /\ pc["A"] = "Failed" /\ err["A"] = "ValueError" /\ copied["A"] # {}
    /\ path["A"] \in deps["A"]
    /\ pc["B"] = "Delegated" /\ Did("B", "MediaCollected")

\* --- C2 ---
MissingAt(p) == {i \in DOMAIN seen[p] : seen[p][i] = "missing"}
CopiedSources(p) == {c.src : c \in copied[p]}

\* C2: with exactly one missing entry in an extra-media list whose other
\* entries exist, every file and directory readable and writable, the
\* descriptor in an absolute directory and the notebook an existing file,
\* collect_extra_media returns having warned exactly once, about the missing
\* entry, and having copied every other file entry.
C2_Claim ==
    \A p \in procs :
        ( /\ mode = "normal"
          /\ IsAbs(source_dir(p)) /\ IsFile(World(p), abs_path[p])
          /\ input[p].json.media.kind = "list"
          /\ Did(p, "MediaCollected")
          /\ Cardinality(MissingAt(p)) = 1 )
        => /\ warnings[p] = << Warning("missing", source_file(p),
                                   Items(p)[CHOOSE i \in MissingAt(p) : TRUE]) >>
           /\ \A i \in DOMAIN seen[p] :
                 seen[p][i] = "file"
                    => AbsPath(cwd, SrcPath(source_dir(p), Items(p)[i]))
                          \in CopiedSources(p)

\* --- C3 ---
\* C3: after a parse that was delegated, of a descriptor with two distinct
\* extra-media files on a file system without permission problems, both
\* dependency sets are exactly the absolute paths of the notebook and of the
\* two media files.
C3_Claim ==
    \A p \in procs :
        ( /\ mode = "normal"
          /\ pc[p] = "Delegated"
          /\ input[p].json.media.kind = "list"
          /\ seen[p] = <<"file", "file">>
          /\ Items(p)[1] # Items(p)[2] )
        => /\ deps[p] = { abs_path[p],
                          AbsPath(cwd, SrcPath(source_dir(p), Items(p)[1])),
                          AbsPath(cwd, SrcPath(source_dir(p), Items(p)[2])) }
           /\ envdeps[p] = deps[p]

\* --- C4 ---
\* C4: no I/O error of the media step leaves parse.
C4_Claim == \A p \in procs : err[p] # "OSError"

\* --- C5 ---
\* C5: an extra-media value that is present, truthy and not a list is warned
\* about once and then skipped: no entry is looked at, nothing is copied, no
\* exception is raised.
C5_Claim ==
    \A p \in procs :
        ( /\ input[p].json.media.kind \notin {"absent", "list"}
          /\ input[p].json.media.truthy
          /\ Did(p, "Resolved") /\ pc[p] # "Resolved" )
        => /\ err[p] # "TypeError"
           /\ warnings[p] = <<Warning("notlist", source_file(p), <<>>)>>
           /\ seen[p] = <<>> /\ copied[p] = {}

\* --- C6 ---
BadDescriptor(p) == input[p].json.kind # "object" \/ ~input[p].json.haspath
NoEffects(p) ==
    /\ copied[p] = {} /\ deps[p] = {} /\ envdeps[p] = {} /\ reread[p] = 0
    /\ warnings[p] = <<>> /\ metadata[p] = NoPath
    /\ files[World(p)] = Files0 /\ dirs[World(p)] = Dirs0

\* C6 as the specification states it: a link file that is not JSON or has no
\* path key fails with ConfigurationError, before any effect.
C6_Claim ==
    \A p \in procs :
        (BadDescriptor(p) /\ pc[p] = "Failed")
            => err[p] = "ConfigurationError" /\ NoEffects(p)

\* C6, amended: a link file that is not JSON fails with json's
\* JSONDecodeError, one that is JSON without the path key with KeyError (or
\* TypeError when the JSON value is no object), neither caught nor wrapped;
\* the document never gets past Loaded, and nothing is copied, registered,
\* warned about or written.
C6_Amended ==
    \A p \in procs :
        BadDescriptor(p)
            => /\ pc[p] \in {"Start", "Loaded", "Failed"}
               /\ pc[p] = "Failed" =>
                     err[p] = (IF input[p].json.kind = "invalid" THEN "JSONDecodeError"
                               ELSE IF input[p].json.kind = "nonobject" THEN "TypeError"
                               ELSE "KeyError")
               /\ NoEffects(p)

\* A descriptor without path, with an extra-media list, has failed.
C6_Witness ==
    /\ pc["A"] = "Failed" /\ err["A"] = "KeyError"
    /\ input["A"].json.media.truthy

\* --- C7 ---
\* An entry whose source exists is being copied, or has just been.
EntryFound(p) ==
    /\ pc[p] \in {"Walk", "Makedirs", "CopyFiles", "EntryEnd"}
    /\ seen[p][Len(seen[p])] # "missing"
Entry(p) == link[p].media.items[idx[p]]
NotebookDir(p) == Parent(abs_path[p])
\* The path to x as seen from directory `from`.
Offset(from, x) == RelativePath(cwd, Join(from, DummyFile), x)

\* C7 as the specification states it: the source is normalize(D/entry) for a
\* relative entry, and the destination is the entry's offset from D
\* re-applied from the notebook's directory.  Stated here for the plainest
\* documents only: D absolute and the notebook an existing file.
C7_Claim ==
    \A p \in procs :
        (EntryFound(p) /\ IsAbs(source_dir(p)) /\ IsFile(World(p), abs_path[p]))
            => /\ src[p] = (IF IsAbs(Entry(p)) THEN Entry(p)
                            ELSE NormPath(Join(source_dir(p), Entry(p))))
               /\ AbsPath(cwd, dest[p])
                    = AbsPath(cwd, Join(NotebookDir(p), Offset(source_dir(p), src[p])))

\* C7, amended: the source is the entry itself when absolute, and otherwise
\* normpath of the entry joined to D twice (D/entry when D is absolute,
\* D/D/entry when D is relative); the destination is computed from the
\* descriptor's directory: seen from D, the destination is where the source
\* is seen from the notebook's directory; when the source and the notebook
\* have no first directory in common, the destination is the source itself.
C7_Amended ==
    \A p \in procs :
        EntryFound(p)
            => /\ src[p] = (IF IsAbs(Entry(p)) THEN Entry(p)
                            ELSE IF IsAbs(source_dir(p))
                                 THEN NormPath(source_dir(p) \o Entry(p))
                            ELSE NormPath(source_dir(p) \o source_dir(p) \o Entry(p)))
               /\ IF IsAbs(Offset(NotebookDir(p), src[p]))
                  THEN dest[p] = AbsPath(cwd, src[p])
                  ELSE Offset(source_dir(p), dest[p]) = Offset(NotebookDir(p), src[p])

\* A relative entry of a descriptor in a relative, non-empty directory is
\* found and copied to another place.
C7_Witness ==
    /\ EntryFound("A") /\ pc["A"] = "EntryEnd" /\ copied["A"] # {}
    /\ ~IsAbs(source_dir("A")) /\ source_dir("A") # <<>>
    /\ ~IsAbs(Entry("A"))
    /\ AbsPath(cwd, dest["A"]) # AbsPath(cwd, src["A"])

\* --- C8 ---
\* The directory that holds the link file.
DescriptorDir(p) == Join(SrcDir, Parent(input[p].docname))

\* C8: the resolved notebook path is normalize(D/P), D being the directory
\* that holds the link file, whatever the working directory.
C8_Claim ==
    \A p \in procs :
        Did(p, "Resolved")
            => abs_path[p] = NormPath(Join(DescriptorDir(p), link[p].path))

\* --- C9 ---
\* C9: note_reread has been called only if some entry met so far was a
\* directory, and once collect_extra_media has returned it has been called
\* if any entry was a directory.
C9_Reread ==
    \A p \in procs :
        /\ reread[p] > 0 => "dir" \in Range(seen[p])
        /\ (Did(p, "MediaCollected") /\ "dir" \in Range(seen[p])) => reread[p] > 0

\* A directory first and a missing path after it: marked in both iterations.
C9_Witness ==
    /\ Did("A", "MediaCollected")
    /\ seen["A"] = <<"dir", "missing">>
    /\ reread["A"] = 2

\* --- C10 ---
Result(p) == <<pc[p], err[p], deps[p], envdeps[p], metadata[p]>>

\* C10: read in parallel, each of two documents ends as it ends when read
\* alone: same outcome, same dependencies, same metadata field.
C10_Claim ==
    \A p \in Conc \cap procs :
        (pc[p] \in Terminal /\ pc[SoloOf(p)] \in Terminal)
            => Result(p) = Result(SoloOf(p))

====
